---- MODULE Spec2Model ----
(***************************************************************************)
(* Model of shell/model/homemodel.py: HomeModel, the registry of running   *)
(* activities of the Sugar shell.  Every handler of HomeModel is an        *)
(* operator from a model value M (the fields of the HomeModel object, the  *)
(* objects it has constructed, and the signals/calls of the running        *)
(* handler) to the model value after the handler returned or raised.       *)
(* The actions wrap one handler each, together with the change of the      *)
(* environment (window system, session bus, timers) that triggers it.      *)
(*                                                                         *)
(* HomeActivity and HomeRawWindow (model/homeactivity.py,                   *)
(* model/homerawwindow.py) are not part of the sources at hand; their      *)
(* accessors, set_window and the launch timer are modelled from the        *)
(* specification (sections 3, 4.1 and 5).                                  *)
(***************************************************************************)
EXTENDS Integers, Sequences, FiniteSets, TLC

\* ------------------------------------------------------------- bounds
\* Window identifiers are 1..MaxXid; the last one is a window that is not
\* of the normal top-level kind, the others are normal windows.
MaxXid == 3
\* Number of record objects (HomeActivity, HomeRawWindow) constructed in a run.
MaxObjs == 3

\* ---------------------------------------------------------- constants
None == 0
\* A service is the proxy of the object on the bus under the name of a window;
\* it is known by that window id.
NoService == None
NoBundle == ""

_SERVICE_NAME == "org.laptop.Activity"
OTHER_NAME == "org.freedesktop.Notifications"

WINDOW_NORMAL == "WINDOW_NORMAL"
WINDOW_DOCK == "WINDOW_DOCK"

Xids == 1..MaxXid
NormalXids == 1..(MaxXid - 1)
get_window_type(window) == IF window \in NormalXids THEN WINDOW_NORMAL ELSE WINDOW_DOCK

\* Activity ids handed out by the launcher / reported by services, as
\* character sequences (str(xid) below is one too).  They are not decimal
\* numbers, so none equals the id a HomeRawWindow synthesizes from its window.
ActIds == {<<"A">>, <<"B">>}
\* Service types; only the first has a bundle in the bundle registry.
ServiceTypes == {"Chat", "Ghost"}
get_bundle(service_name) == IF service_name = "Chat" THEN "ChatBundle" ELSE NoBundle

\* ---------------------------------------------- strings and bus names
Digit == <<"0", "1", "2", "3", "4", "5", "6", "7", "8", "9">>

\* '%d' % xid, str(xid): the decimal digits of xid
RECURSIVE str(_)
str(n) == IF n < 10 THEN <<Digit[n + 1]>> ELSE str(n \div 10) \o <<Digit[(n % 10) + 1]>>

\* xid.isdigit(): non-empty and only digits
isdigit(s) == Len(s) > 0 /\ \A i \in 1..Len(s) : \E d \in 1..10 : Digit[d] = s[i]

DigitValue(c) == (CHOOSE d \in 1..10 : Digit[d] = c) - 1

\* int(xid) of a digit string
RECURSIVE int(_)
int(s) == IF Len(s) = 0 THEN 0 ELSE 10 * int(SubSeq(s, 1, Len(s) - 1)) + DigitValue(s[Len(s)])

\* A bus name: a head and the characters after it (name[len(head):]).
BusName(xid) == [head |-> _SERVICE_NAME, tail |-> str(xid)]
startswith(name, prefix) == name.head = prefix

\* bus: what the objects registered on the session bus answer, by window id.
\* bus.get_object(_SERVICE_NAME + '%d' % xid, ...): the proxy of the object
\* registered under the name, NoService where dbus raises DBusException.
get_object(bus, name) ==
    IF startswith(name, _SERVICE_NAME) /\ isdigit(name.tail) /\ int(name.tail) \in DOMAIN bus
    THEN int(name.tail)
    ELSE NoService

\* service.get_id(), service.get_service_name(): remote calls
get_id(bus, service) == bus[service].id
get_service_name(bus, service) == bus[service].type

\* --------------------------------------------------------- dictionary
has_key(d, k) == k \in DOMAIN d
DictSet(d, k, v) == [x \in (DOMAIN d) \cup {k} |-> IF x = k THEN v ELSE d[x]]
DictDel(d, k) == [x \in (DOMAIN d) \ {k} |-> d[x]]
values(d) == {d[k] : k \in DOMAIN d}
EmptyDict == [x \in {} |-> None]

\* ------------------------------------------------------------ objects
\* HomeActivity(bundle, activity_id): windowless, not launched, launch
\* timer armed, launch_time the next tick of the clock.
HomeActivity(M, bundle, activity_id) ==
    [cls |-> "HomeActivity", activity_id |-> activity_id, bundle |-> bundle,
     window |-> None, service |-> NoService, launch_time |-> Len(M.heap) + 1,
     launched |-> FALSE, timer |-> "armed"]

\* HomeRawWindow(window): a record known by its window only; the id is
\* synthesized from the window, launched is true, there is no service.
HomeRawWindow(M, window) ==
    [cls |-> "HomeRawWindow", activity_id |-> str(window), bundle |-> NoBundle,
     window |-> window, service |-> NoService, launch_time |-> Len(M.heap) + 1,
     launched |-> TRUE, timer |-> "none"]

get_activity_id(M, a) == M.heap[a].activity_id
get_launched(M, a) == M.heap[a].launched
get_xid(M, a) == M.heap[a].window
get_window(M, a) == M.heap[a].window
get_service(M, a) == M.heap[a].service
get_launch_time(M, a) == M.heap[a].launch_time

\* activity.set_service(service)
set_service(M, a, service) == [M EXCEPT !.heap[a].service = service]

set_window_keeps_timer(M, a, window) ==
    [M EXCEPT !.heap[a].window = window, !.heap[a].launched = TRUE]

\* activity.set_window(window): attaches the window (in place of the one
\* the record had, if any), the record is launched from now on and its
\* launch timer is disarmed.
set_window(M, a, window) ==
    [M EXCEPT !.heap[a].window = window, !.heap[a].launched = TRUE,
              !.heap[a].timer = IF @ = "armed" THEN "removed" ELSE @]

\* service.set_active(flag), recorded with the record whose service it is
set_active(M, a, flag) == [M EXCEPT !.calls = Append(@, <<a, flag>>)]

\* self.emit(signal, record)
emit(M, signal, a) == [M EXCEPT !.emitted = Append(@, <<signal, a>>)]

raise(M, error) == [M EXCEPT !.raised = error]

construct(M, obj) == [M EXCEPT !.heap = Append(@, obj)]

\* ---------------------------------------------------------- HomeModel
\* The fields of the HomeModel object after __init__, with an empty heap.
HomeModel ==
    [activities |-> EmptyDict, current_activity |-> None, heap |-> <<>>,
     emitted |-> <<>>, calls |-> <<>>, raised |-> "none"]

get_current_activity(M) == M.current_activity

\* dict.values(): the records of the registry as a list, in the
\* dictionary's own order.  That order is arbitrary; this is one of them
\* (latest first), and C5_Ordering covers every other.
RECURSIVE values_list(_)
values_list(S) ==
    IF S = {} THEN <<>>
    ELSE LET a == CHOOSE x \in S : \A y \in S : y <= x IN <<a>> \o values_list(S \ {a})

\* list.sort(key=get_launch_time) is stable: a record goes behind the
\* records whose key is not greater.
RECURSIVE sort_by_launch_time(_, _)
sort_by_launch_time(M, acts) ==
    IF Len(acts) = 0 THEN <<>>
    ELSE LET rest == sort_by_launch_time(M, SubSeq(acts, 1, Len(acts) - 1))
             a == acts[Len(acts)]
             before == SelectSeq(rest, LAMBDA b : get_launch_time(M, b) <= get_launch_time(M, a))
             after == SelectSeq(rest, LAMBDA b : get_launch_time(M, b) > get_launch_time(M, a))
         IN before \o <<a>> \o after

_get_ordered_activities_unsorted(M) == values_list(values(M.activities))

_get_ordered_activities(M) ==
    sort_by_launch_time(M, values_list(values(M.activities)))

\* __len__, __getitem__, index
len(M) == Cardinality(DOMAIN M.activities)
getitem(M, i) == _get_ordered_activities(M)[i + 1]
index(M, a) ==
    (CHOOSE i \in 1..Len(_get_ordered_activities(M)) : _get_ordered_activities(M)[i] = a) - 1

\* The first record of the registry that is launched and has the window.
\* (The choice among several is the dictionary's order; WindowUnique
\* below shows there is never more than one.)
_get_activity_by_xid(M, xid) ==
    LET hits == {a \in values(M.activities) : get_launched(M, a) /\ get_xid(M, a) = xid}
    IN IF hits = {} THEN None ELSE CHOOSE a \in hits : TRUE

_notify_activity_activation_new_only(M, old_activity, new_activity) ==
    IF old_activity = new_activity THEN M
    ELSE IF new_activity # None /\ get_service(M, new_activity) # NoService
         THEN set_active(M, new_activity, TRUE) ELSE M

_notify_activity_activation_skips_old(M, old_activity, new_activity) ==
    IF old_activity = new_activity THEN M
    ELSE IF new_activity # None /\ get_service(M, new_activity) # NoService
         THEN set_active(M, new_activity, TRUE)
         ELSE IF old_activity # None /\ get_service(M, old_activity) # NoService
              THEN set_active(M, old_activity, FALSE) ELSE M

_notify_activity_activation(M, old_activity, new_activity) ==
    IF old_activity = new_activity THEN M
    ELSE LET M1 == IF old_activity # None /\ get_service(M, old_activity) # NoService
                   THEN set_active(M, old_activity, FALSE) ELSE M
         IN IF new_activity # None /\ get_service(M1, new_activity) # NoService
            THEN set_active(M1, new_activity, TRUE) ELSE M1

_active_window_changed_cb_keeps_focus(M, window) ==
    IF window = None
    THEN _notify_activity_activation(emit(M, "active-activity-changed", None),
                                     M.current_activity, None)
    ELSE IF get_window_type(window) # WINDOW_NORMAL THEN M
    ELSE LET act == _get_activity_by_xid(M, window)
             M1 == IF act # None /\ get_launched(M, act)
                   THEN [_notify_activity_activation(M, M.current_activity, act)
                            EXCEPT !.current_activity = act]
                   ELSE _notify_activity_activation(M, M.current_activity, None)
         IN emit(M1, "active-activity-changed", M1.current_activity)

\* window is None or the active window of the screen
_active_window_changed_cb(M, window) ==
    IF window = None
    THEN _notify_activity_activation(emit(M, "active-activity-changed", None),
                                     M.current_activity, None)
    ELSE IF get_window_type(window) # WINDOW_NORMAL THEN M
    ELSE LET act == _get_activity_by_xid(M, window)
             M1 == IF act # None /\ get_launched(M, act)
                   THEN [_notify_activity_activation(M, M.current_activity, act)
                            EXCEPT !.current_activity = act]
                   ELSE [_notify_activity_activation(M, M.current_activity, None)
                            EXCEPT !.current_activity = None]
         IN emit(M1, "active-activity-changed", M1.current_activity)

_add_window(M, window) ==
    LET M1 == construct(M, HomeRawWindow(M, window))
        home_window == Len(M1.heap)
        M2 == [M1 EXCEPT !.activities = DictSet(@, get_activity_id(M1, home_window), home_window)]
    IN emit(M2, "activity-added", home_window)

_add_activity_always_new(M, window, bus) ==
    LET service == get_object(bus, BusName(window))
    IN  IF service = NoService THEN _add_window(M, window)
        ELSE LET act_id == get_id(bus, service)
                 bundle == get_bundle(get_service_name(bus, service))
             IN IF bundle = NoBundle THEN raise(M, "RuntimeError")
                ELSE LET M1 == construct(M, HomeActivity(M, bundle, act_id))
                         activity == Len(M1.heap)
                         M2 == [M1 EXCEPT !.activities = DictSet(@, act_id, activity)]
                     IN emit(set_window(set_service(M2, activity, service), activity, window),
                             "activity-added", activity)

_add_activity(M, window, bus) ==
    LET xid == window
        service == get_object(bus, BusName(xid))
    IN  IF service = NoService THEN _add_window(M, window)
        ELSE LET act_id == get_id(bus, service)
                 act_type == get_service_name(bus, service)
                 bundle == get_bundle(act_type)
                 M1 == construct(M, HomeActivity(M, bundle, act_id))
                 M2 == IF has_key(M.activities, act_id) THEN M
                       ELSE [M1 EXCEPT !.activities = DictSet(@, act_id, Len(M1.heap))]
                 activity == M2.activities[act_id]
             IN IF ~has_key(M.activities, act_id) /\ bundle = NoBundle
                THEN raise(M, "RuntimeError")
                ELSE emit(set_window(set_service(M2, activity, service), activity, window),
                          "activity-added", activity)

_window_opened_cb(M, window, bus) ==
    IF get_window_type(window) = WINDOW_NORMAL THEN _add_activity(M, window, bus) ELSE M

_internal_remove_activity_silent(M, activity) ==
    LET M1 == IF activity = M.current_activity
              THEN [M EXCEPT !.current_activity = None] ELSE M
        act_id == get_activity_id(M1, activity)
    IN [M1 EXCEPT !.activities = DictDel(@, act_id)]

_internal_remove_activity(M, activity) ==
    LET M1 == IF activity = M.current_activity
              THEN [M EXCEPT !.current_activity = None] ELSE M
        M2 == emit(M1, "activity-removed", activity)
        act_id == get_activity_id(M2, activity)
    IN [M2 EXCEPT !.activities = DictDel(@, act_id)]

_remove_activity_logs_only(M, xid) == M

_remove_activity(M, xid) ==
    LET activity == _get_activity_by_xid(M, xid)
    IN IF activity # None THEN _internal_remove_activity(M, activity) ELSE M

_window_closed_cb(M, window) ==
    LET M1 == IF get_window_type(window) = WINDOW_NORMAL
              THEN _remove_activity(M, window) ELSE M
    IN IF DOMAIN M1.activities = {}
       THEN _notify_activity_activation(emit(M1, "active-activity-changed", None),
                                        M1.current_activity, None)
       ELSE M1

_dbus_name_owner_changed_cb_remove_only(M, name, old, new, bus) ==
    IF startswith(name, _SERVICE_NAME) /\ new # "" /\ old = "" /\ isdigit(name.tail)
    THEN LET act == _get_activity_by_xid(M, int(name.tail))
         IN IF act # None /\ M.heap[act].cls = "HomeRawWindow"
            THEN _internal_remove_activity(M, act) ELSE M
    ELSE M

_dbus_name_owner_changed_cb(M, name, old, new, bus) ==
    IF startswith(name, _SERVICE_NAME) /\ new # "" /\ old = ""
    THEN LET xid_str == name.tail
         IN IF ~isdigit(xid_str) THEN M
            ELSE LET xid == int(xid_str)
                     act == _get_activity_by_xid(M, xid)
                 IN IF act # None /\ M.heap[act].cls = "HomeRawWindow"
                    THEN _add_activity(_internal_remove_activity(M, act),
                                       get_window(M, act), bus)
                    ELSE M
    ELSE M

_activity_launch_timeout_cb(M, activity) ==
    LET act_id == get_activity_id(M, activity)
    IN IF ~has_key(M.activities, act_id) THEN M
       ELSE _internal_remove_activity(M, activity)

notify_activity_launch_unchecked(M, activity_id, service_name) ==
    LET M1 == construct(M, HomeActivity(M, get_bundle(service_name), activity_id))
        activity == Len(M1.heap)
        M2 == [M1 EXCEPT !.activities = DictSet(@, activity_id, activity)]
    IN emit(M2, "activity-launched", activity)

notify_activity_launch(M, activity_id, service_name) ==
    LET bundle == get_bundle(service_name)
    IN IF bundle = NoBundle THEN raise(M, "ValueError")
       ELSE LET M1 == construct(M, HomeActivity(M, bundle, activity_id))
                activity == Len(M1.heap)
                M2 == [M1 EXCEPT !.activities = DictSet(@, activity_id, activity)]
            IN emit(M2, "activity-launched", activity)

notify_activity_launch_failed_emits(M, activity_id) ==
    IF has_key(M.activities, activity_id)
    THEN _internal_remove_activity(M, M.activities[activity_id])
    ELSE emit(M, "activity-removed", None)

notify_activity_launch_failed(M, activity_id) ==
    IF has_key(M.activities, activity_id)
    THEN _internal_remove_activity(M, M.activities[activity_id])
    ELSE M

\* -------------------------------------------------------------- state
VARIABLES
    activities,        \* HomeModel._activities: activity id -> record
    current_activity,  \* HomeModel._current_activity
    heap,              \* the records constructed so far, by object identity
    emitted,           \* signals emitted by the last handler, in order
    calls,             \* set_active calls made by the last handler, in order
    raised,            \* the exception the last handler raised, or "none"
    open,              \* windows the window system currently shows
    last,              \* the last event delivered: <<handler, argument>>
    active             \* services whose last set_active call was set_active(True)

vars ==
    <<activities, current_activity, heap, emitted, calls, raised, open, last, active>>

\* The HomeModel as a handler finds it: the logs of the previous handler
\* are not part of it.
Self ==
    [activities |-> activities, current_activity |-> current_activity, heap |-> heap,
     emitted |-> <<>>, calls |-> <<>>, raised |-> "none"]

\* A record nothing refers to any more: not in the registry, not the
\* current activity, no armed timer, not carried by a signal or call of
\* the handler that just ran.  Python frees it.
Collected ==
    [cls |-> "collected", activity_id |-> <<>>, bundle |-> NoBundle, window |-> None,
     service |-> NoService, launch_time |-> 0, launched |-> FALSE, timer |-> "none"]

Unreferenced(M, a) ==
    /\ a \notin values(M.activities)
    /\ a # M.current_activity
    /\ M.heap[a].timer # "armed"
    /\ \A i \in 1..Len(M.emitted) : M.emitted[i][2] # a
    /\ \A i \in 1..Len(M.calls) : M.calls[i][1] # a

\* The services that were last told set_active(True), after the calls of a
\* handler reached the services of the records they were made on.
RECURSIVE Told(_, _, _)
Told(M, services, made) ==
    IF Len(made) = 0 THEN services
    ELSE LET service == get_service(M, Head(made)[1])
         IN Told(M, IF Head(made)[2] THEN services \cup {service} ELSE services \ {service},
                 Tail(made))

Installs(M) ==
    /\ Len(M.heap) <= MaxObjs
    /\ activities' = M.activities
    /\ current_activity' = M.current_activity
    /\ heap' = [a \in 1..Len(M.heap) |-> IF Unreferenced(M, a) THEN Collected ELSE M.heap[a]]
    /\ emitted' = M.emitted
    /\ calls' = M.calls
    /\ raised' = M.raised

Becomes(M) == Installs(M) /\ active' = Told(M, active, M.calls)

\* What the object on the session bus under a window's name answers when a
\* handler looks: nothing is registered (NoAnswer), or a service reporting
\* an activity id and a type.  Services come and go between any two events,
\* so each event may find any of these.
NoAnswer == [id |-> <<>>, type |-> ""]
Answers == {[id |-> i, type |-> t] : i \in ActIds, t \in ServiceTypes}
AnswersFor(xid) == IF xid \in NormalXids THEN {NoAnswer} \cup Answers ELSE {NoAnswer}
BusWith(xid, answer) == [x \in (IF answer = NoAnswer THEN {} ELSE {xid}) |-> answer]

Owners == {"", ":1.7"}
BusNames ==
    {BusName(x) : x \in Xids}
        \cup {[head |-> _SERVICE_NAME, tail |-> <<>>], [head |-> _SERVICE_NAME, tail |-> <<"x">>],
              [head |-> OTHER_NAME, tail |-> <<"1">>]}
XidOf(name) == IF isdigit(name.tail) THEN int(name.tail) ELSE None
\* A name has just got its first owner: a service came up.
LooksUp(name, old, new) == startswith(name, _SERVICE_NAME) /\ old = "" /\ new # ""

Init ==
    /\ activities = HomeModel.activities
    /\ current_activity = HomeModel.current_activity
    /\ heap = HomeModel.heap
    /\ emitted = <<>>
    /\ calls = <<>>
    /\ raised = "none"
    /\ open = {}
    /\ last = <<"__init__", None>>
    /\ active = {}

\* screen 'window-opened': a window that was not open appears; answer is
\* what the bus holds under the window's name at that moment.  (open keeps
\* the normal windows; windows of other kinds open and close at any time.)
WindowOpened(window, answer) ==
    /\ window \notin open
    /\ Becomes(_window_opened_cb(Self, window, BusWith(window, answer)))
    /\ open' = (open \cup {window}) \cap NormalXids
    /\ last' = <<"window-opened", window>>

\* screen 'window-closed': an open window disappears, and the service of
\* its activity with it (a window that opens later is another window, with
\* a service of its own)
WindowClosed(window) ==
    /\ window \in NormalXids => window \in open
    /\ Installs(_window_closed_cb(Self, window))
    /\ active' = Told(_window_closed_cb(Self, window), active,
                      _window_closed_cb(Self, window).calls) \ {window}
    /\ open' = open \ {window}
    /\ last' = <<"window-closed", window>>

\* screen 'active-window-changed': the active window is an open one or None
ActiveWindowChanged(window) ==
    /\ window \in NormalXids => window \in open
    /\ Becomes(_active_window_changed_cb(Self, window))
    /\ last' = <<"active-window-changed", window>>
    /\ UNCHANGED open

\* org.freedesktop.DBus NameOwnerChanged(name, old, new); answer is what
\* the bus holds under the name when the handler looks
NameOwnerChanged(name, old, new, answer) ==
    /\ Becomes(_dbus_name_owner_changed_cb(Self, name, old, new, BusWith(XidOf(name), answer)))
    /\ last' = <<"NameOwnerChanged", XidOf(name)>>
    /\ UNCHANGED open

NotifyActivityLaunch(activity_id, service_name) ==
    /\ Becomes(notify_activity_launch(Self, activity_id, service_name))
    /\ last' = <<"notify_activity_launch", None>>
    /\ UNCHANGED open

NotifyActivityLaunchFailed(activity_id) ==
    /\ Becomes(notify_activity_launch_failed(Self, activity_id))
    /\ last' = <<"notify_activity_launch_failed", None>>
    /\ UNCHANGED open

\* The launch timeout of a record elapses.  An armed timer emits
\* 'launch-timeout' once, which runs _activity_launch_timeout_cb; a timer
\* that set_window disarmed runs nothing.
LaunchTimeout(activity) ==
    /\ heap[activity].timer \in {"armed", "removed"}
    /\ IF heap[activity].timer = "armed"
       THEN Becomes(_activity_launch_timeout_cb(
                        [Self EXCEPT !.heap[activity].timer = "fired"], activity))
       ELSE Becomes(Self)
    /\ last' = <<"launch-timeout", activity>>
    /\ UNCHANGED open

Next ==
    \/ \E window \in Xids : \E answer \in AnswersFor(window) : WindowOpened(window, answer)
    \/ \E window \in Xids : WindowClosed(window)
    \/ \E window \in Xids \cup {None} : ActiveWindowChanged(window)
    \/ \E name \in BusNames : \E answer \in AnswersFor(XidOf(name)) :
          NameOwnerChanged(name, "", ":1.7", answer)
    \/ \E name \in {BusName(x) : x \in NormalXids} : \E old, new \in Owners :
          ~LooksUp(name, old, new) /\ NameOwnerChanged(name, old, new, NoAnswer)
    \/ \E activity_id \in ActIds, service_name \in ServiceTypes :
          NotifyActivityLaunch(activity_id, service_name)
    \/ \E activity_id \in ActIds : NotifyActivityLaunchFailed(activity_id)
    \/ \E activity \in 1..Len(heap) : LaunchTimeout(activity)

Spec == Init /\ [][Next]_vars

\* ------------------------------------------------------------- claims
\* What a record is, apart from its identity and launch time.
Content(M, a) ==
    [cls |-> M.heap[a].cls, activity_id |-> M.heap[a].activity_id,
     service |-> M.heap[a].service, window |-> M.heap[a].window,
     launched |-> M.heap[a].launched]

\* The records of the registry that hold window xid.
Holding(M, xid) == {a \in values(M.activities) : get_xid(M, a) = xid}

InRegistry(M, a) ==
    has_key(M.activities, get_activity_id(M, a)) /\ M.activities[get_activity_id(M, a)] = a

\* C1 (expiry safety): when the launch timeout of a record elapses after a
\* window was attached to it (it is launched and in the registry), nothing
\* happens: the registry and the current activity are as before and no
\* signal is emitted; the record and the other records of the registry are
\* unchanged.
C1_ExpirySafety ==
    [][\A a \in 1..Len(heap) :
          (last' = <<"launch-timeout", a>> /\ heap[a].cls = "HomeActivity"
               /\ get_launched(Self, a) /\ InRegistry(Self, a))
          => (activities' = activities /\ current_activity' = current_activity
                /\ (\A b \in values(activities) : heap'[b] = heap[b])
                /\ emitted' = <<>> /\ calls' = <<>>)]_vars

\* A launched HomeActivity is in the registry, bound to an open window, and
\* its launch timeout has just elapsed.
C1_Witness ==
    \E a \in 1..Len(heap) :
        /\ last = <<"launch-timeout", a>>
        /\ heap[a].cls = "HomeActivity" /\ heap[a].launched /\ heap[a].timer = "removed"
        /\ heap[a].window \in open
        /\ InRegistry(Self, a)

\* C2 (race convergence): from a registry without a record for window w,
\* whose service has a registered bundle, window-opened (service not yet on
\* the bus) followed by NameOwnerChanged ends with the same single record
\* for w (same id, service, window, kind) as NameOwnerChanged followed by
\* window-opened (service on the bus); no HomeRawWindow for w remains.
C2_RaceConvergence ==
    \A w \in NormalXids \ open : \A answer \in Answers :
        (Holding(Self, w) = {} /\ ~has_key(activities, str(w))
            /\ get_bundle(answer.type) # NoBundle)
        => LET bus == BusWith(w, answer)
               window_first ==
                   _dbus_name_owner_changed_cb(
                       _window_opened_cb(Self, w, BusWith(w, NoAnswer)),
                       BusName(w), "", ":1.7", bus)
               service_first ==
                   _window_opened_cb(
                       _dbus_name_owner_changed_cb(Self, BusName(w), "", ":1.7", bus),
                       w, bus)
           IN /\ {Content(window_first, a) : a \in Holding(window_first, w)}
                    = {Content(service_first, a) : a \in Holding(service_first, w)}
              /\ Cardinality(Holding(window_first, w)) = 1
              /\ \A a \in Holding(window_first, w) :
                    /\ window_first.heap[a].cls = "HomeActivity"
                    /\ get_activity_id(window_first, a) = answer.id
                    /\ get_service(window_first, a) = w
              /\ ~has_key(window_first.activities, str(w))
              /\ ~has_key(service_first.activities, str(w))

\* The window-first order has run: NameOwnerChanged replaced the
\* HomeRawWindow of an open window by a newly constructed HomeActivity.
C2_Witness ==
    \E w \in open :
        /\ last = <<"NameOwnerChanged", w>>
        /\ Len(emitted) = 2
        /\ emitted[2] = <<"activity-added", Len(heap)>>
        /\ heap[Len(heap)].cls = "HomeActivity"
        /\ heap[Len(heap)].window = w
        /\ Holding(Self, w) = {Len(heap)}

\* C3 (window uniqueness): no two records of the registry hold the same
\* window.
C3_WindowUnique ==
    \A a \in values(activities) : \A b \in values(activities) :
        (a # b /\ get_xid(Self, a) # None) => get_xid(Self, a) # get_xid(Self, b)

\* Two records of the registry hold a window each, after a window that had
\* been closed was opened again.
C3_Witness ==
    /\ Cardinality({a \in values(activities) : get_xid(Self, a) # None}) = 2
    /\ \E a \in values(activities) : get_xid(Self, a) # None /\ a > 2
    /\ last[1] = "window-opened"

\* C4 (expiry): a record made by notify_activity_launch that never got a
\* window and leaves the registry when a launch timeout elapses has
\* activity-removed emitted for it, once, by that timeout.
C4_ExpiryEmitsRemoved ==
    [][\A a \in 1..Len(heap) :
          (heap[a].cls = "HomeActivity" /\ ~get_launched(Self, a) /\ InRegistry(Self, a)
               /\ last'[1] = "launch-timeout"
               /\ ~(has_key(activities', get_activity_id(Self, a))
                      /\ activities'[get_activity_id(Self, a)] = a))
          => emitted' = <<<<"activity-removed", a>>>>]_vars

\* The sequences without repetition of all the elements of S.
Orders(S) ==
    {order \in [1..Cardinality(S) -> S] : \A i, j \in 1..Cardinality(S) : order[i] = order[j] => i = j}

\* C5 (ordering): the traversal of the HomeModel yields exactly the records
\* of the registry, in ascending launch time, whatever the dictionary's
\* order; indexing and index agree with it; and removing a record leaves
\* the others in the same relative order.
C5_Ordering ==
    LET acts == _get_ordered_activities(Self)
    IN /\ Len(acts) = len(Self)
       /\ {acts[i] : i \in 1..Len(acts)} = values(activities)
       /\ \A i, j \in 1..Len(acts) :
             i < j => get_launch_time(Self, acts[i]) < get_launch_time(Self, acts[j])
       /\ \A i \in 0..(len(Self) - 1) :
             getitem(Self, i) = acts[i + 1] /\ index(Self, acts[i + 1]) = i
       /\ \A order \in Orders(values(activities)) : sort_by_launch_time(Self, order) = acts
       /\ \A a \in values(activities) :
             _get_ordered_activities(_internal_remove_activity(Self, a))
                 = SelectSeq(acts, LAMBDA b : b # a)

\* Three records were inserted and the second of them has just been
\* removed: the first and the third are left.
C5_Witness ==
    /\ Len(heap) = 3
    /\ values(activities) = {1, 3}
    /\ emitted = <<<<"activity-removed", 2>>>>
    /\ _get_ordered_activities(Self) = <<1, 3>>

\* C6: after active-window-changed with no active window the current
\* activity is None, active-activity-changed(None) was emitted, and the
\* service of the activity that was current, if any, got set_active(False).
C6_NoneClearsFocus ==
    [][last' = <<"active-window-changed", None>>
          => /\ current_activity' = None
             /\ emitted' = <<<<"active-activity-changed", None>>>>
             /\ calls' = IF current_activity # None
                            /\ get_service(Self, current_activity) # NoService
                         THEN <<<<current_activity, FALSE>>>> ELSE <<>>]_vars

\* C7: window-closed for a window that is not a normal window changes
\* neither the registry nor the current activity, emits nothing and calls
\* no service.
C7_NonNormalCloseIgnored ==
    [][\A w \in Xids \ NormalXids :
          last' = <<"window-closed", w>>
          => /\ activities' = activities
             /\ current_activity' = current_activity
             /\ emitted' = <<>>
             /\ calls' = <<>>]_vars

\* C8 (placeholder promotion): with a HomeRawWindow p for the open window w
\* in the registry, NameOwnerChanged for w's name with the service on the
\* bus and its bundle registered ends with p out of the registry, exactly
\* one record holding w, a HomeActivity with the service, and has emitted
\* activity-removed(p) and then activity-added(that record).
C8_PlaceholderPromotion ==
    \A w \in open : \A answer \in Answers :
        (has_key(activities, str(w)) /\ heap[activities[str(w)]].cls = "HomeRawWindow"
            /\ Holding(Self, w) = {activities[str(w)]}
            /\ get_bundle(answer.type) # NoBundle)
        => LET p == activities[str(w)]
               R == _dbus_name_owner_changed_cb(Self, BusName(w), "", ":1.7", BusWith(w, answer))
           IN /\ R.raised = "none"
              /\ p \notin values(R.activities)
              /\ Cardinality(Holding(R, w)) = 1
              /\ \A b \in Holding(R, w) :
                    /\ R.heap[b].cls = "HomeActivity"
                    /\ get_activity_id(R, b) = answer.id
                    /\ get_service(R, b) = w
                    /\ get_launched(R, b)
                    /\ R.emitted = <<<<"activity-removed", p>>, <<"activity-added", b>>>>

\* NameOwnerChanged has replaced the HomeRawWindow of an open window by the
\* HomeActivity that an earlier notify_activity_launch had made.
C8_Witness ==
    \E w \in open : \E p, b \in 1..Len(heap) :
        /\ last = <<"NameOwnerChanged", w>>
        /\ emitted = <<<<"activity-removed", p>>, <<"activity-added", b>>>>
        /\ b < p
        /\ heap[p].cls = "HomeRawWindow"
        /\ heap[b].cls = "HomeActivity" /\ heap[b].window = w /\ heap[b].service = w
        /\ Holding(Self, w) = {b}

\* C9 (normal launch): with a windowless HomeActivity r under id A in the
\* registry (made by notify_activity_launch), window-opened for a window
\* whose service reports id A creates no record: the registry is the same
\* mapping, r has the window and the service and is launched, and
\* activity-added is emitted once, with r.
C9_NormalLaunch ==
    \A w \in NormalXids \ open : \A answer \in Answers :
        (has_key(activities, answer.id) /\ heap[activities[answer.id]].cls = "HomeActivity"
            /\ ~get_launched(Self, activities[answer.id]))
        => LET r == activities[answer.id]
               R == _window_opened_cb(Self, w, BusWith(w, answer))
           IN /\ R.raised = "none"
              /\ R.activities = activities
              /\ Len(R.heap) = Len(heap)
              /\ get_window(R, r) = w /\ get_service(R, r) = w /\ get_launched(R, r)
              /\ get_activity_id(R, r) = answer.id
              /\ get_launch_time(R, r) = get_launch_time(Self, r)
              /\ R.emitted = <<<<"activity-added", r>>>>

\* window-opened for window 1 has attached the window to record 1, a
\* HomeActivity made before the HomeRawWindow of window 2 was.
C9_Witness ==
    /\ last = <<"window-opened", 1>>
    /\ emitted = <<<<"activity-added", 1>>>>
    /\ Len(heap) = 2
    /\ heap[1].cls = "HomeActivity" /\ heap[1].window = 1 /\ heap[1].launched
    /\ heap[2].cls = "HomeRawWindow" /\ heap[2].window = 2
    /\ values(activities) = {1, 2}

\* C10 (focus round trip): with a launched HomeActivity a on the open
\* window w and no current activity, active-window-changed(w) followed by
\* active-window-changed(None) emits active-activity-changed(a) and then
\* active-activity-changed(None), and calls set_active(True) and then
\* set_active(False) on a's service, and nothing else.
C10_FocusRoundTrip ==
    \A w \in open : \A a \in Holding(Self, w) :
        (current_activity = None /\ heap[a].cls = "HomeActivity" /\ get_launched(Self, a))
        => LET R1 == _active_window_changed_cb(Self, w)
               R2 == _active_window_changed_cb(R1, None)
           IN /\ R1.emitted = <<<<"active-activity-changed", a>>>>
              /\ R1.calls = <<<<a, TRUE>>>>
              /\ R1.current_activity = a
              /\ R2.emitted = <<<<"active-activity-changed", a>>, <<"active-activity-changed", None>>>>
              /\ R2.calls = <<<<a, TRUE>>, <<a, FALSE>>>>

\* The second half of the round trip has run: active-window-changed(None)
\* told the service of the launched current activity set_active(False).
C10_Witness ==
    \E a \in values(activities) :
        /\ last = <<"active-window-changed", None>>
        /\ heap[a].cls = "HomeActivity" /\ heap[a].launched /\ heap[a].window \in open
        /\ emitted = <<<<"active-activity-changed", None>>>>
        /\ calls = <<<<a, FALSE>>>>

\* C11 (activation idempotence): _notify_activity_activation with the same
\* record as old and new calls no service; and active-window-changed for
\* the window that the current activity holds makes no set_active call.
C11_ActivationIdempotence ==
    /\ \A a \in {None} \cup (1..Len(heap)) :
          _notify_activity_activation(Self, a, a).calls = <<>>
    /\ \A w \in open :
          (current_activity # None /\ get_xid(Self, current_activity) = w)
          => _active_window_changed_cb(Self, w).calls = <<>>

\* C12: notify_activity_launch_failed for an id that is not in the registry
\* emits nothing, calls no service and leaves the registry and the current
\* activity as they are; for an id that is in the registry it takes exactly
\* the record under that id out and emits activity-removed once, with it.
C12_LaunchFailed ==
    \A activity_id \in ActIds \cup DOMAIN activities :
        LET R == notify_activity_launch_failed(Self, activity_id)
        IN IF ~has_key(activities, activity_id)
           THEN /\ R.emitted = <<>> /\ R.calls = <<>>
                /\ R.activities = activities
                /\ R.current_activity = current_activity
                /\ R.heap = heap
           ELSE /\ R.activities = DictDel(activities, activity_id)
                /\ values(R.activities) = values(activities) \ {activities[activity_id]}
                /\ R.emitted = <<<<"activity-removed", activities[activity_id]>>>>

\* notify_activity_launch_failed has removed one record, the older of two
\* that were in the registry.
C12_Witness ==
    \E a \in 1..Len(heap) :
        /\ last[1] = "notify_activity_launch_failed"
        /\ emitted = <<<<"activity-removed", a>>>>
        /\ a \notin values(activities)
        /\ \E b \in values(activities) : b > a

\* C13: notify_activity_launch with a service name that has no bundle
\* raises ValueError and does nothing else: no record is constructed (so no
\* timer is armed), nothing is emitted, the registry and the current
\* activity are as before.
C13_UnknownServiceRejected ==
    \A activity_id \in ActIds : \A service_name \in ServiceTypes :
        get_bundle(service_name) = NoBundle
        => LET R == notify_activity_launch(Self, activity_id, service_name)
           IN /\ R.raised = "ValueError"
              /\ R.heap = heap
              /\ R.emitted = <<>> /\ R.calls = <<>>
              /\ R.activities = activities
              /\ R.current_activity = current_activity

\* notify_activity_launch has just raised ValueError while the registry
\* holds a record, which is the current activity.
C13_Witness ==
    /\ last[1] = "notify_activity_launch"
    /\ raised = "ValueError"
    /\ emitted = <<>>
    /\ current_activity # None /\ InRegistry(Self, current_activity)

\* C14: active-window-changed with a normal window for which the registry
\* has no launched record sets the current activity to None, runs
\* _notify_activity_activation(old current, None) (set_active(False) on the
\* service of the old current activity, if it has one), emits
\* active-activity-changed(None) and leaves the registry as it is.
C14_UnknownWindowClearsFocus ==
    \A w \in NormalXids :
        _get_activity_by_xid(Self, w) = None
        => LET R == _active_window_changed_cb(Self, w)
           IN /\ R.current_activity = None
              /\ R.calls = IF current_activity # None
                              /\ get_service(Self, current_activity) # NoService
                           THEN <<<<current_activity, FALSE>>>> ELSE <<>>
              /\ R.emitted = <<<<"active-activity-changed", None>>>>
              /\ R.activities = activities
              /\ R.heap = heap
              /\ R.raised = "none"

\* active-window-changed for an open window that no record of the registry
\* holds has cleared the focus and told the service of the record that was
\* current set_active(False).
C14_Witness ==
    \E w \in open : \E a \in values(activities) :
        /\ last = <<"active-window-changed", w>>
        /\ _get_activity_by_xid(Self, w) = None
        /\ current_activity = None
        /\ emitted = <<<<"active-activity-changed", None>>>>
        /\ calls = <<<<a, FALSE>>>>

\* C15: when the launch timeout of a record elapses while the registry
\* holds another, later record under the same activity id (after
\* notify_activity_launch_failed and a new launch, or after a second
\* notify_activity_launch), the registry stays as it is and no signal is
\* emitted.
C15_LateTimeoutSpares ==
    [][\A a \in 1..Len(heap) :
          (last' = <<"launch-timeout", a>>
               /\ has_key(activities, get_activity_id(Self, a))
               /\ activities[get_activity_id(Self, a)] # a)
          => (activities' = activities /\ emitted' = <<>>)]_vars

\* C16: a handler that raises RuntimeError (no bundle for the type the
\* service of an opened window reports), whether window-opened or
\* NameOwnerChanged ran it, leaves the registry and the current activity as
\* they were before the event.
C16_MissingBundleAtomic ==
    [][raised' = "RuntimeError"
          => (activities' = activities /\ current_activity' = current_activity)]_vars

\* C17 (focus validity): the current activity is None or a launched record
\* that is in the registry under its own activity id.
C17_FocusValid ==
    current_activity # None
    => (InRegistry(Self, current_activity) /\ get_launched(Self, current_activity))

\* What an observer connected to the signals of the HomeModel makes of the
\* signals of one handler, starting from the records it had: a record is in
\* after 'activity-launched' or 'activity-added', out after
\* 'activity-removed'.
RECURSIVE Observed(_, _)
Observed(records, signals) ==
    IF Len(signals) = 0 THEN records
    ELSE LET signal == Head(signals)
         IN Observed(IF signal[1] \in {"activity-launched", "activity-added"}
                         THEN records \cup {signal[2]}
                     ELSE IF signal[1] = "activity-removed" THEN records \ {signal[2]}
                     ELSE records,
                     Tail(signals))

\* The record carried by the latest 'active-activity-changed' among the
\* signals, record if there is none.
RECURSIVE Shown(_, _)
Shown(record, signals) ==
    IF Len(signals) = 0 THEN record
    ELSE Shown(IF Head(signals)[1] = "active-activity-changed" THEN Head(signals)[2] ELSE record,
               Tail(signals))

\* C18 (observer consistency of the registry): every operation changes the
\* records of the registry exactly as its signals tell an observer: the
\* records after it are the records before it, plus those announced by
\* activity-launched or activity-added, minus those announced by
\* activity-removed; and activity-removed is only emitted for a record the
\* observer has.  (Registry and observer both start empty, so the observer's
\* records are the registry's after every operation.)
C18_ObserverRegistry ==
    [][/\ values(activities') = Observed(values(activities), emitted')
       /\ \A i \in 1..Len(emitted') :
             emitted'[i][1] = "activity-removed"
             => emitted'[i][2] \in Observed(values(activities), SubSeq(emitted', 1, i - 1))]_vars

\* C19 (observer consistency of focus): after every operation the current
\* activity is the record carried by the operation's latest
\* active-activity-changed, or the current activity of before if it emitted
\* none.  (Both start as None, so the latest active-activity-changed
\* carries the current activity after every operation.)
C19_ObserverFocus ==
    [][get_current_activity(Self)' = Shown(get_current_activity(Self), emitted')]_vars

\* C20 (single active service): at most one record of the registry has a
\* service that was last told set_active(True), and that record is the
\* current activity.
C20_SingleActive ==
    LET on == {a \in values(activities) :
                  get_service(Self, a) # NoService /\ get_service(Self, a) \in active}
    IN Cardinality(on) <= 1 /\ \A a \in on : a = current_activity

\* The focus has just gone from one record of the registry to another, both
\* with a service: the first was told set_active(False), the second
\* set_active(True), and only the second's service is active.
C20_Witness ==
    \E a, b \in values(activities) :
        /\ a # b
        /\ calls = <<<<a, FALSE>>, <<b, TRUE>>>>
        /\ current_activity = b
        /\ get_service(Self, b) \in active
        /\ get_service(Self, a) # NoService /\ get_service(Self, a) \notin active
====
